---- MODULE Spec2Model ----
(***************************************************************************)
(* ApiTokenAuthentication of helusers/_oidc_auth_impl.py: the pipeline     *)
(* authenticate = get_jwt_value -> decode_jwt (through the cached          *)
(* get_oidc_config) -> amr fix -> validate_claims -> USER_RESOLVER ->      *)
(* UserAuthorization -> API scope check.                                   *)
(*                                                                         *)
(* Python values whose type the code inspects (isinstance(x, str)) are     *)
(* tagged: Str(s) is a string, List(q) a sequence of strings.  Header      *)
(* words, schemes and credentials are plain TLA+ strings.                  *)
(***************************************************************************)
EXTENDS Integers, Sequences, FiniteSets, TLC

\* ------------------------------------------------------------------ bounds
MaxTime == 3
MaxHeaderWords == 3

\* --------------------------------------------------------- program values
OIDC_CONFIG_EXPIRATION_TIME == 2

NoneVal == "<None>"
Str(s) == [t |-> "str", v |-> s]
List(q) == [t |-> "list", v |-> q]
IsStr(x) == x.t = "str"
Elems(q) == {q[i] : i \in DOMAIN q}

\* the request processes; SeqRequests run one call at a time
Requests == {"r1", "r2"}
SeqRequests == {"r1"}

\* ------------------------------------------------------------ the settings
Issuer1 == "https://idp.example"
Issuer2 == "https://idp2.example"
AuthSchemes == {NoneVal, "", "Bearer", "JWT"}
IssuerSettings == {Str(Issuer1), List(<<Issuer1, Issuer2>>)}
AudienceSettings == {Str("api"), List(<<"api", "api2">>)}
\* ISSUER and AUDIENCE are both single strings or both sequences
SettingsSet ==
  {s \in [AUTH_SCHEME : AuthSchemes,
          ISSUER : IssuerSettings,
          AUDIENCE : AudienceSettings,
          REQUIRE_API_SCOPE_FOR_AUTHENTICATION : BOOLEAN,
          API_SCOPE_PREFIX : {"myapi"},
          OIDC_CONFIG_EXPIRATION_TIME : {OIDC_CONFIG_EXPIRATION_TIME}]
     : s.ISSUER.t = s.AUDIENCE.t}

\* ------------------------------------------------- the Authorization header
\* A header is Missing or the sequence of its whitespace-separated words
\* (bytes.split() of the header value).
Missing == <<"<no header>">>
NonUtf8Word == "<0xE9>"
Credentials ==
  {"Tok.Good", "Tok.StrAmr", "Tok.NoAud", "Tok.BadAud", "Tok.BadIss", "Tok.BadSig"}
FirstWords == {"Bearer", "bearer", "JWT", "Basic", NonUtf8Word}
ExtraWords == {"x"}

RECURSIVE HeadersOfLen(_)
HeadersOfLen(n) ==
  IF n = 0 THEN {<<>>}
  ELSE {Append(h, w) : h \in HeadersOfLen(n - 1),
                       w \in (IF n = 1 THEN FirstWords
                              ELSE IF n = 2 THEN Credentials ELSE ExtraWords)}

Headers == {Missing} \cup UNION {HeadersOfLen(n) : n \in 0..MaxHeaderWords}

\* rest_framework's get_authorization_header(request).split(): b'' when the
\* header is absent, so a missing and an empty header both give no words
get_authorization_header_split(h) == IF h = Missing THEN <<>> ELSE h

\* smart_str(bytes): UTF-8 decoding, which fails on bytes that are not UTF-8
DecodeError == "<DjangoUnicodeDecodeError>"
smart_str(w) == IF w = NonUtf8Word THEN DecodeError ELSE w

\* a comparison that keeps the case
lower_identity(s) == s

\* str.lower() over the words of the model
lower(s) ==
  CASE s = "Bearer" -> "bearer"
    [] s = "JWT" -> "jwt"
    [] s = "Basic" -> "basic"
    [] s = "Tok.Good" -> "tok.good"
    [] s = "Tok.StrAmr" -> "tok.stramr"
    [] s = "Tok.NoAud" -> "tok.noaud"
    [] s = "Tok.BadAud" -> "tok.badaud"
    [] s = "Tok.BadIss" -> "tok.badiss"
    [] s = "Tok.BadSig" -> "tok.badsig"
    [] OTHER -> s

\* ----------------------------------------------------------------- results
MsgNoCredentials == <<"Invalid Authorization header. No credentials provided">>
MsgSpaces ==
  <<"Invalid Authorization header. Credentials string should not contain spaces.">>
MsgSignature == <<"Invalid Authorization header. JWT Signature verification failed.">>
MsgClaims == <<"Invalid Authorization header. Claims validation failed.">>

ReturnNone == [kind |-> "None"]
Raise(exc, msg) == [kind |-> "raise", exc |-> exc, msg |-> msg]
AuthenticationFailed(msg) == Raise("AuthenticationFailed", msg)
ReturnPair(user, auth) == [kind |-> "pair", user |-> user, auth |-> auth]
Value(v) == [kind |-> "value", value |-> v]

\* --------------------------------------------------------------- auth_scheme
\* auth_scheme without the default
auth_scheme_no_default(s) == s.AUTH_SCHEME

\* line 40
auth_scheme(s) ==
  IF s.AUTH_SCHEME \in {NoneVal, ""} THEN "Bearer" ELSE s.AUTH_SCHEME

\* ------------------------------------------------------------- get_jwt_value
\* get_jwt_value without the check for more than two words
get_jwt_value_no_space_check(s, h) ==
  LET auth == get_authorization_header_split(h) IN
  IF Len(auth) = 0 THEN ReturnNone
  ELSE IF smart_str(auth[1]) = DecodeError THEN Raise("UnicodeDecodeError", <<>>)
  ELSE IF lower(smart_str(auth[1])) # lower(auth_scheme(s)) THEN ReturnNone
  ELSE IF Len(auth) = 1 THEN AuthenticationFailed(MsgNoCredentials)
  ELSE Value(auth[2])

\* lines 93-109
get_jwt_value(s, h) ==
  LET auth == get_authorization_header_split(h) IN
  IF Len(auth) = 0 THEN ReturnNone
  ELSE IF smart_str(auth[1]) = DecodeError THEN Raise("UnicodeDecodeError", <<>>)
  ELSE IF lower(smart_str(auth[1])) # lower(auth_scheme(s)) THEN ReturnNone
  ELSE IF Len(auth) = 1 THEN AuthenticationFailed(MsgNoCredentials)
  ELSE IF Len(auth) > 2 THEN AuthenticationFailed(MsgSpaces)
  ELSE Value(auth[2])

\* ---------------------------------------------------------- get_oidc_config
WellKnownPath == "/.well-known/openid-configuration"

\* lines 48-51: the discovery URL, as <<issuer, path>> for issuer + path
discovery_url(s) ==
  LET issuer == IF IsStr(s.ISSUER) THEN s.ISSUER.v ELSE s.ISSUER.v[1]
  IN <<issuer, WellKnownPath>>

DocVersions == {1, 2}
DiscoveryDoc(issuer, ver) == [doc |-> "discovery", issuer |-> issuer, ver |-> ver]
ErrorBody(issuer) == [doc |-> "error", issuer |-> issuer, ver |-> 0]
NoBody == [doc |-> "none", issuer |-> "", ver |-> 0]

\* what the network can answer to GET url
Responses(url) ==
  {[kind |-> "network_error", status |-> "none", json |-> FALSE, body |-> NoBody]}
  \cup {[kind |-> "response", status |-> "2xx", json |-> TRUE,
         body |-> DiscoveryDoc(url[1], v)] : v \in DocVersions}
  \cup {[kind |-> "response", status |-> "non2xx", json |-> TRUE,
         body |-> ErrorBody(url[1])]}
  \cup {[kind |-> "response", status |-> st, json |-> FALSE, body |-> NoBody]
          : st \in {"2xx", "non2xx"}}

NoResponse == [kind |-> "not_requested", status |-> "none", json |-> FALSE, body |-> NoBody]

\* line 52: requests.get(url).json()
requests_get_json(resp) ==
  IF resp.kind = "network_error" THEN Raise("ConnectionError", <<>>)
  ELSE IF ~resp.json THEN Raise("JSONDecodeError", <<>>)
  ELSE Value(resp.body)

\* the @cache(ttl=...) store: one entry under the method's key
NoEntry == [present |-> FALSE, value |-> NoBody, expires |-> 0]
\* the lookup with every entry taken as expired
cache_get_always_miss(c, t) == ReturnNone

cache_get(c, t) == IF c.present /\ t < c.expires THEN Value(c.value) ELSE ReturnNone
\* the entry published before its value is written
cache_set_value_missing(v, t) ==
  [present |-> TRUE, value |-> NoBody, expires |-> t + OIDC_CONFIG_EXPIRATION_TIME]

\* line 46: the entry lives for the module settings' OIDC_CONFIG_EXPIRATION_TIME
cache_set(v, t) ==
  [present |-> TRUE, value |-> v, expires |-> t + OIDC_CONFIG_EXPIRATION_TIME]

\* ----------------------------------------------------- decode_jwt, the claims
NoPayload == [none |-> TRUE]

\* the payload each credential of the model carries
JwtPayload(tok) ==
  CASE tok = "Tok.Good" ->
         [iss |-> Str(Issuer1), aud |-> List(<<"api">>), amr |-> List(<<"pwd">>),
          scope |-> <<"myapi.read", "openid">>]
    [] tok = "Tok.StrAmr" ->
         [iss |-> Str(Issuer1), aud |-> Str("api"), amr |-> Str("pwd"),
          scope |-> <<"openid", "profile">>]
    [] tok = "Tok.NoAud" ->
         [iss |-> Str(Issuer1), scope |-> <<"myapi.read">>]
    [] tok = "Tok.BadAud" ->
         [iss |-> Str(Issuer1), aud |-> List(<<"other">>), scope |-> <<"myapi.read">>]
    [] tok = "Tok.BadIss" ->
         [iss |-> Str(Issuer2), aud |-> Str("api"), scope |-> <<"myapi.read">>]
    [] OTHER -> NoPayload

SignatureValid(tok) == tok \in Credentials \ {"Tok.BadSig"}

\* decode_jwt of the base class: the keys come from the provider config
decode_jwt(tok, config) ==
  IF config.doc # "discovery" THEN Raise("KeyError", <<"jwks_uri">>)
  ELSE IF ~SignatureValid(tok) THEN AuthenticationFailed(MsgSignature)
  ELSE Value(JwtPayload(tok))

\* the payload left as decoded
fix_amr_unchanged(payload) == payload

\* lines 67-68
fix_amr(payload) ==
  IF "amr" \in DOMAIN payload /\ IsStr(payload.amr)
  THEN [payload EXCEPT !.amr = List(<<payload.amr.v>>)]
  ELSE payload

\* line 26: the base class's options, the issuer check
super_claims_options == [iss |-> [essential |-> TRUE, values |-> <<Issuer1>>]]

\* lines 28-30
audiences(s) == IF IsStr(s.AUDIENCE) THEN <<s.AUDIENCE.v>> ELSE s.AUDIENCE.v

\* the aud option without "essential"
aud_option_not_essential(s) == [essential |-> FALSE, values |-> audiences(s)]

\* lines 32-36
aud_option(s) == [essential |-> TRUE, values |-> audiences(s)]

claims_options(s) == [iss |-> super_claims_options.iss, aud |-> aud_option(s)]

\* lines 116-118: the set literal {AUDIENCE}; a list cannot be a set member
get_audiences(s) ==
  IF IsStr(s.AUDIENCE) THEN Value({s.AUDIENCE.v})
  ELSE Raise("TypeError", <<"unhashable type: 'list'">>)

ClaimList(x) == IF IsStr(x) THEN {x.v} ELSE Elems(x.v)

\* line 75: validate_claims, the claims checked against claims_options
validate_claims(payload, options) ==
  IF \E k \in DOMAIN options : options[k].essential /\ k \notin DOMAIN payload
    THEN AuthenticationFailed(MsgClaims)
  ELSE IF \E k \in DOMAIN options \cap DOMAIN payload :
            ClaimList(payload[k]) \cap Elems(options[k].values) = {}
    THEN AuthenticationFailed(MsgClaims)
  ELSE Value(payload)

\* ------------------------------------------------------------ USER_RESOLVER
ResolverOutcomes ==
  {[kind |-> "user", user |-> "user1", msg |-> <<>>],
   [kind |-> "ValueError", user |-> NoneVal, msg |-> <<"payload has no sub">>],
   [kind |-> "OtherError", user |-> NoneVal, msg |-> <<>>]}

\* --------------------------------------------------------- UserAuthorization
UserAuthorization(user, payload) == [user |-> user, payload |-> payload]
NoAuth == [user |-> NoneVal, payload |-> NoPayload]

StartsWith(x, prefix) ==
  <<x, prefix>> \in {<<"myapi.read", "myapi">>, <<"myapi", "myapi">>}

has_api_scope_with_prefix(auth, prefix) ==
  /\ "scope" \in DOMAIN auth.payload
  /\ \E x \in Elems(auth.payload.scope) : StartsWith(x, prefix)

\* lines 87-89
MsgScope(api_scope) == <<"Not authorized for API scope \"", api_scope, "\"">>

\* scope_check without the raise
scope_check_never_denies(s, user, auth) == ReturnPair(user, auth)

\* lines 84-91
scope_check(s, user, auth) ==
  IF s.REQUIRE_API_SCOPE_FOR_AUTHENTICATION
     /\ ~has_api_scope_with_prefix(auth, s.API_SCOPE_PREFIX)
  THEN AuthenticationFailed(MsgScope(s.API_SCOPE_PREFIX))
  ELSE ReturnPair(user, auth)

\* settings is the module's api_token_auth_settings, self_settings[p] the
\* settings of the authenticator that serves p (line 20)
VARIABLES settings, self_settings, now, cache, users, pc, header, jwt_value,
          response, config, payload, resolved, auth_ctx, result, trace

vars == <<settings, self_settings, now, cache, users, pc, header, jwt_value,
          response, config, payload, resolved, auth_ctx, result, trace>>

NotResolved == [kind |-> "not_called", user |-> NoneVal, msg |-> <<>>]

\* the state of a process before its first request
Fresh ==
  /\ now = 0
  /\ cache = NoEntry
  /\ users = {}
  /\ pc = [p \in Requests |-> "idle"]
  /\ header = [p \in Requests |-> Missing]
  /\ jwt_value = [p \in Requests |-> NoneVal]
  /\ response = [p \in Requests |-> NoResponse]
  /\ config = [p \in Requests |-> NoBody]
  /\ payload = [p \in Requests |-> NoPayload]
  /\ resolved = [p \in Requests |-> NotResolved]
  /\ auth_ctx = [p \in Requests |-> NoAuth]
  /\ result = [p \in Requests |-> ReturnNone]
  /\ trace = [p \in Requests |-> <<>>]

\* every authenticator is built without a settings argument
Init ==
  /\ settings \in SettingsSet
  /\ self_settings = [p \in Requests |-> settings]
  /\ Fresh

Log(p, stage, outcome) == [trace EXCEPT ![p] = Append(@, <<stage, outcome>>)]
Outcome(r) == IF r.kind = "raise" THEN "fail" ELSE "ok"

\* the call of p ends with r
Finish(p, r) ==
  /\ pc' = [pc EXCEPT ![p] = "done"]
  /\ result' = [result EXCEPT ![p] = r]

Goto(p, label) ==
  /\ pc' = [pc EXCEPT ![p] = label]
  /\ UNCHANGED result

\* authenticate, lines 54-57: a new call on request process p
Call(p, hs) ==
  /\ pc[p] \in {"idle", "done"}
  /\ \E h \in hs :
       LET r == get_jwt_value(self_settings[p], h) IN
       /\ header' = [header EXCEPT ![p] = h]
       /\ trace' = [trace EXCEPT ![p] = <<<<"get_jwt_value", Outcome(r)>>>>]
       /\ IF r.kind = "value"
          THEN /\ jwt_value' = [jwt_value EXCEPT ![p] = r.value]
               /\ pc' = [pc EXCEPT ![p] = "oidc_config"]
               /\ result' = [result EXCEPT ![p] = ReturnNone]
          ELSE /\ jwt_value' = [jwt_value EXCEPT ![p] = NoneVal]
               /\ Finish(p, r)
  /\ response' = [response EXCEPT ![p] = NoResponse]
  /\ config' = [config EXCEPT ![p] = NoBody]
  /\ payload' = [payload EXCEPT ![p] = NoPayload]
  /\ resolved' = [resolved EXCEPT ![p] = NotResolved]
  /\ auth_ctx' = [auth_ctx EXCEPT ![p] = NoAuth]
  /\ UNCHANGED <<settings, self_settings, now, cache, users>>

\* a request with any header of the model
Authenticate(p) ==
  /\ pc[p] \in {"idle", "done"}
  /\ Call(p, Headers)

\* the @cache wrapper of get_oidc_config, line 46: the lookup
CacheGet(p) ==
  /\ pc[p] = "oidc_config"
  /\ LET c == cache_get(cache, now) IN
       IF c.kind = "value"
       THEN /\ config' = [config EXCEPT ![p] = c.value]
            /\ trace' = Log(p, "cache_hit", "ok")
            /\ Goto(p, "decode_jwt")
       ELSE /\ trace' = Log(p, "cache_miss", "ok")
            /\ Goto(p, "requests_get")
            /\ UNCHANGED config
  /\ UNCHANGED <<settings, self_settings, now, cache, users, header, jwt_value, response,
                 payload, auth_ctx, resolved>>

\* RequestsGet with the fetch error swallowed: the call returns None
RequestsGet_swallowed(p) ==
  /\ pc[p] = "requests_get"
  /\ \E resp \in Responses(discovery_url(self_settings[p])) :
       LET r == requests_get_json(resp) IN
       /\ response' = [response EXCEPT ![p] = resp]
       /\ trace' = Log(p, "fetch", Outcome(r))
       /\ IF r.kind = "value"
          THEN /\ config' = [config EXCEPT ![p] = r.value]
               /\ Goto(p, "cache_set")
          ELSE /\ Finish(p, ReturnNone)
               /\ UNCHANGED config
  /\ UNCHANGED <<settings, self_settings, now, cache, users, header, jwt_value, payload, auth_ctx, resolved>>

\* RequestsGet that tries the GET again after a failure
RequestsGet_retry(p) ==
  /\ pc[p] = "requests_get"
  /\ \E resp \in Responses(discovery_url(self_settings[p])) :
       LET r == requests_get_json(resp) IN
       /\ response' = [response EXCEPT ![p] = resp]
       /\ trace' = Log(p, "fetch", Outcome(r))
       /\ IF r.kind = "value"
          THEN /\ config' = [config EXCEPT ![p] = r.value]
               /\ Goto(p, "cache_set")
          ELSE /\ Goto(p, "requests_get")
               /\ UNCHANGED config
  /\ UNCHANGED <<settings, self_settings, now, cache, users, header, jwt_value,
                 payload, auth_ctx, resolved>>

\* get_oidc_config, lines 47-52: the outbound GET and its .json()
RequestsGet(p) ==
  /\ pc[p] = "requests_get"
  /\ \E resp \in Responses(discovery_url(self_settings[p])) :
       LET r == requests_get_json(resp) IN
       /\ response' = [response EXCEPT ![p] = resp]
       /\ trace' = Log(p, "fetch", Outcome(r))
       /\ IF r.kind = "value"
          THEN /\ config' = [config EXCEPT ![p] = r.value]
               /\ Goto(p, "cache_set")
          ELSE /\ Finish(p, r)
               /\ UNCHANGED config
  /\ UNCHANGED <<settings, self_settings, now, cache, users, header, jwt_value, payload, auth_ctx, resolved>>

\* the @cache wrapper, line 46: the fetched value is stored for the TTL
CacheSet(p) ==
  /\ pc[p] = "cache_set"
  /\ cache' = cache_set(config[p], now)
  /\ trace' = Log(p, "cache_set", "ok")
  /\ Goto(p, "decode_jwt")
  /\ UNCHANGED <<settings, self_settings, now, users, header, jwt_value, response, config,
                 payload, auth_ctx, resolved>>

\* DecodeJwt with the payload handed on as decoded
DecodeJwt_no_fix(p) ==
  /\ pc[p] = "decode_jwt"
  /\ LET r == decode_jwt(jwt_value[p], config[p]) IN
       /\ trace' = Log(p, "decode_jwt", Outcome(r))
       /\ IF r.kind = "value"
          THEN /\ payload' = [payload EXCEPT ![p] = r.value]
               /\ Goto(p, "validate_claims")
          ELSE /\ Finish(p, r)
               /\ UNCHANGED payload
  /\ UNCHANGED <<settings, self_settings, now, cache, users, header, jwt_value,
                 response, config, auth_ctx, resolved>>

\* lines 59-73: decode_jwt, then the amr fix
DecodeJwt(p) ==
  /\ pc[p] = "decode_jwt"
  /\ LET r == decode_jwt(jwt_value[p], config[p]) IN
       /\ trace' = Log(p, "decode_jwt", Outcome(r))
       /\ IF r.kind = "value"
          THEN /\ payload' = [payload EXCEPT ![p] = fix_amr(r.value)]
               /\ Goto(p, "validate_claims")
          ELSE /\ Finish(p, r)
               /\ UNCHANGED payload
  /\ UNCHANGED <<settings, self_settings, now, cache, users, header, jwt_value, response, config,
                 auth_ctx, resolved>>

\* ValidateClaims with the outcome of validate_claims ignored
ValidateClaims_unchecked(p) ==
  /\ pc[p] = "validate_claims"
  /\ LET r == validate_claims(payload[p], claims_options(self_settings[p])) IN
       /\ trace' = Log(p, "validate_claims", Outcome(r))
       /\ Goto(p, "user_resolver")
  /\ UNCHANGED <<settings, self_settings, now, cache, users, header, jwt_value, response, config,
                 payload, auth_ctx, resolved>>

\* line 75
ValidateClaims(p) ==
  /\ pc[p] = "validate_claims"
  /\ LET r == validate_claims(payload[p], claims_options(self_settings[p])) IN
       /\ trace' = Log(p, "validate_claims", Outcome(r))
       /\ IF r.kind = "value" THEN Goto(p, "user_resolver") ELSE Finish(p, r)
  /\ UNCHANGED <<settings, self_settings, now, cache, users, header, jwt_value, response, config,
                 payload, auth_ctx, resolved>>

\* ResolveUser with the resolver's ValueError left as it is
ResolveUser_untranslated(p) ==
  /\ pc[p] = "user_resolver"
  /\ \E o \in ResolverOutcomes :
       /\ resolved' = [resolved EXCEPT ![p] = o]
       /\ trace' = Log(p, "user_resolver", IF o.kind = "user" THEN "ok" ELSE "fail")
       /\ IF o.kind = "user"
          THEN /\ users' = users \cup {o.user}
               /\ auth_ctx' = [auth_ctx EXCEPT ![p] = UserAuthorization(o.user, payload[p])]
               /\ Goto(p, "scope_check")
          ELSE /\ Finish(p, Raise(o.kind, o.msg))
               /\ UNCHANGED <<users, auth_ctx>>
  /\ UNCHANGED <<settings, self_settings, now, cache, header, jwt_value, response,
                 config, payload>>

\* ResolveUser going on to the scope check after a failed resolver
ResolveUser_failure_ignored(p) ==
  /\ pc[p] = "user_resolver"
  /\ \E o \in ResolverOutcomes :
       /\ resolved' = [resolved EXCEPT ![p] = o]
       /\ trace' = Log(p, "user_resolver", IF o.kind = "user" THEN "ok" ELSE "fail")
       /\ users' = IF o.kind = "user" THEN users \cup {o.user} ELSE users
       /\ auth_ctx' = [auth_ctx EXCEPT ![p] = UserAuthorization(o.user, payload[p])]
       /\ Goto(p, "scope_check")
  /\ UNCHANGED <<settings, self_settings, now, cache, header, jwt_value, response,
                 config, payload>>

\* lines 77-82: the resolver, its ValueError translated, then UserAuthorization
ResolveUser(p) ==
  /\ pc[p] = "user_resolver"
  /\ \E o \in ResolverOutcomes :
       /\ resolved' = [resolved EXCEPT ![p] = o]
       /\ trace' = Log(p, "user_resolver", IF o.kind = "user" THEN "ok" ELSE "fail")
       /\ IF o.kind = "user"
          THEN /\ users' = users \cup {o.user}
               /\ auth_ctx' = [auth_ctx EXCEPT ![p] = UserAuthorization(o.user, payload[p])]
               /\ Goto(p, "scope_check")
          ELSE /\ Finish(p, IF o.kind = "ValueError"
                            THEN AuthenticationFailed(o.msg)
                            ELSE Raise(o.kind, o.msg))
               /\ UNCHANGED <<users, auth_ctx>>
  /\ UNCHANGED <<settings, self_settings, now, cache, header, jwt_value, response,
                 config, payload>>

\* lines 84-91
ScopeCheck(p) ==
  /\ pc[p] = "scope_check"
  /\ LET r == scope_check(self_settings[p], auth_ctx[p].user, auth_ctx[p]) IN
       /\ trace' = Log(p, "scope_check", Outcome(r))
       /\ Finish(p, r)
  /\ UNCHANGED <<settings, self_settings, now, cache, users, header, jwt_value, response, config,
                 payload, auth_ctx, resolved>>

\* time passes
Tick ==
  /\ now < MaxTime
  /\ now' = now + 1
  /\ UNCHANGED <<settings, self_settings, cache, users, pc, header, jwt_value, response, config,
                 payload, auth_ctx, resolved, result, trace>>

Step(p) ==
  \/ Authenticate(p)
  \/ CacheGet(p)
  \/ RequestsGet(p)
  \/ CacheSet(p)
  \/ DecodeJwt(p)
  \/ ValidateClaims(p)
  \/ ResolveUser(p)
  \/ ScopeCheck(p)

\* requests served one at a time
Next == Tick \/ \E p \in SeqRequests : Step(p)

Spec == Init /\ [][Next]_vars

\* ------------------------------------------------- requests served at once
\* Each request has its own thread of execution: the steps of the calls of
\* all of Requests interleave, over the requests that carry a credential or
\* no header and the settings with the "Bearer" scheme.
BearerHeaders == {Missing, <<"Bearer", "Tok.Good">>}
BearerSettings ==
  {s \in SettingsSet :
     s.AUTH_SCHEME = "Bearer" /\ ~s.REQUIRE_API_SCOPE_FOR_AUTHENTICATION}

InitConc ==
  /\ settings \in BearerSettings
  /\ self_settings = [p \in Requests |-> settings]
  /\ Fresh

AuthenticateBearer(p) ==
  /\ pc[p] \in {"idle", "done"}
  /\ Call(p, BearerHeaders)

StepConc(p) ==
  \/ AuthenticateBearer(p)
  \/ CacheGet(p)
  \/ RequestsGet(p)
  \/ CacheSet(p)
  \/ DecodeJwt(p)
  \/ ValidateClaims(p)
  \/ ResolveUser(p)
  \/ ScopeCheck(p)

NextConc == Tick \/ \E p \in Requests : StepConc(p)

SpecConc == InitConc /\ [][NextConc]_vars

\* -------------------------------------- authenticators of different settings
\* the settings argument of __init__ (lines 19-20): another issuer and
\* another OIDC_CONFIG_EXPIRATION_TIME than the module settings
OtherSettings(s) ==
  [s EXCEPT !.ISSUER = Str(Issuer2),
            !.OIDC_CONFIG_EXPIRATION_TIME = OIDC_CONFIG_EXPIRATION_TIME - 1]

\* r1 is served by ApiTokenAuthentication(), r2 by
\* ApiTokenAuthentication(settings=OtherSettings)
InitInst ==
  /\ settings \in BearerSettings
  /\ self_settings =
       [p \in Requests |-> IF p = "r1" THEN settings ELSE OtherSettings(settings)]
  /\ Fresh

SpecInst == InitInst /\ [][NextConc]_vars

\* ------------------------------------------------------- reading the trace
Started(p) == pc[p] # "idle"
Done(p) == pc[p] = "done"
Invoked(p, stage) == \E i \in DOMAIN trace[p] : trace[p][i][1] = stage
Succeeded(p, stage) == \E i \in DOMAIN trace[p] : trace[p][i] = <<stage, "ok">>
Failed(p, stage) == \E i \in DOMAIN trace[p] : trace[p][i] = <<stage, "fail">>
Before(p, a, b) ==
  \A j \in DOMAIN trace[p] :
    trace[p][j][1] = b => \E i \in 1..(j - 1) : trace[p][i] = <<a, "ok">>

\* the words of a header and the scheme the settings configure, as the
\* specification describes them
ConfiguredScheme ==
  IF settings.AUTH_SCHEME = NoneVal \/ settings.AUTH_SCHEME = ""
  THEN "Bearer" ELSE settings.AUTH_SCHEME
CaseClasses == {{"Bearer", "bearer"}, {"JWT"}, {"Basic"}}
SameIgnoringCase(a, b) == \E c \in CaseClasses : a \in c /\ b \in c
NoWords(h) == h = Missing \/ Len(h) = 0
MatchesScheme(h) == ~NoWords(h) /\ SameIgnoringCase(h[1], ConfiguredScheme)
OnlyExtracted(p) == trace[p] = <<<<"get_jwt_value", "ok">>>>

\* C1: a request whose Authorization header is missing, empty or of another
\* scheme gets None from authenticate, never a failure, and neither the
\* decode, the provider-config fetch nor the resolver is invoked.
C1_NoCredentialIsNone ==
  \A p \in Requests :
    (Started(p) /\ (NoWords(header[p]) \/ ~MatchesScheme(header[p])))
      => /\ Done(p)
         /\ result[p] = ReturnNone
         /\ OnlyExtracted(p)

\* C2: the user resolver is invoked only after the credential extraction,
\* decode_jwt and validate_claims of the same request's token succeeded, and
\* not at all when one of them failed or there was no credential.
C2_ResolverAfterValidation ==
  \A p \in Requests :
    /\ (pc[p] = "user_resolver" \/ Invoked(p, "user_resolver"))
         => /\ Succeeded(p, "get_jwt_value")
            /\ Succeeded(p, "decode_jwt")
            /\ Succeeded(p, "validate_claims")
            /\ jwt_value[p] = header[p][2]
            /\ validate_claims(fix_amr(JwtPayload(jwt_value[p])),
                               claims_options(settings)).kind = "value"
    /\ Before(p, "get_jwt_value", "user_resolver")
    /\ Before(p, "decode_jwt", "user_resolver")
    /\ Before(p, "validate_claims", "user_resolver")
    /\ (Failed(p, "get_jwt_value") \/ Failed(p, "fetch") \/ Failed(p, "decode_jwt")
          \/ Failed(p, "validate_claims") \/ (Done(p) /\ result[p] = ReturnNone))
         => ~Invoked(p, "user_resolver")

C2_Witness ==
  \E p \in Requests : Invoked(p, "user_resolver") /\ Done(p)

\* C3: with REQUIRE_API_SCOPE_FOR_AUTHENTICATION a pair is returned only if
\* has_api_scope_with_prefix(API_SCOPE_PREFIX) holds of the built context, and
\* otherwise authenticate fails with an AuthenticationFailed whose message
\* contains the prefix; without the flag the scope check never fails.
C3_ScopeRequired ==
  \A p \in Requests :
    LET has == has_api_scope_with_prefix(auth_ctx[p], settings.API_SCOPE_PREFIX) IN
    /\ (settings.REQUIRE_API_SCOPE_FOR_AUTHENTICATION /\ Done(p)
          /\ result[p].kind = "pair")
         => has /\ result[p].auth = auth_ctx[p]
    /\ (settings.REQUIRE_API_SCOPE_FOR_AUTHENTICATION /\ Done(p)
          /\ Succeeded(p, "user_resolver") /\ ~has)
         => /\ result[p].kind = "raise"
            /\ result[p].exc = "AuthenticationFailed"
            /\ \E i \in DOMAIN result[p].msg :
                 result[p].msg[i] = settings.API_SCOPE_PREFIX
    /\ ~settings.REQUIRE_API_SCOPE_FOR_AUTHENTICATION
         => /\ ~Failed(p, "scope_check")
            /\ (Done(p) /\ Succeeded(p, "user_resolver")) => result[p].kind = "pair"

C3_Witness ==
  \E p \in Requests :
    /\ settings.REQUIRE_API_SCOPE_FOR_AUTHENTICATION
    /\ Done(p)
    /\ Failed(p, "scope_check")
    /\ result[p] = AuthenticationFailed(MsgScope("myapi"))

Stages ==
  {"get_jwt_value", "cache_hit", "cache_miss", "fetch", "cache_set", "decode_jwt",
   "validate_claims", "user_resolver", "scope_check"}

\* C4: every call of authenticate ends in None, a pair or a raised failure;
\* None only when the extractor found no credential, a pair only when decode,
\* claim validation, resolution and the scope check all succeeded, and a
\* failed stage always ends the call in a raised failure.
C4_FailuresAreTerminal ==
  \A p \in Requests :
    /\ Done(p) => result[p].kind \in {"None", "pair", "raise"}
    /\ (Done(p) /\ result[p].kind = "None")
         => OnlyExtracted(p) /\ jwt_value[p] = NoneVal
    /\ (Done(p) /\ result[p].kind = "pair")
         => /\ Succeeded(p, "decode_jwt")
            /\ Succeeded(p, "validate_claims")
            /\ Succeeded(p, "user_resolver")
            /\ Succeeded(p, "scope_check")
            /\ \A st \in Stages : ~Failed(p, st)
    /\ (\E st \in Stages : Failed(p, st)) => Done(p) /\ result[p].kind = "raise"
    /\ (Started(p) /\ ~Done(p)) => jwt_value[p] # NoneVal

C4_Witness ==
  \E p \in Requests :
    Done(p) /\ Failed(p, "validate_claims") /\ result[p].kind = "raise"

CacheValid == cache.present /\ now < cache.expires
FetchCount(p) == Cardinality({i \in DOMAIN trace[p] : trace[p][i][1] = "fetch"})

\* C5: a get_oidc_config call that finds an unexpired entry makes no fetch
\* and returns the cached document; a call that finds none or an expired one
\* makes exactly one fetch, whose document replaces the entry for one TTL and
\* is what the call returns.
C5_CacheWithinTtl ==
  /\ [](\A p \in Requests :
          /\ FetchCount(p) <= 1
          /\ Invoked(p, "cache_hit")
               => /\ ~Invoked(p, "fetch")
                  /\ cache.present /\ config[p] = cache.value
          /\ Invoked(p, "fetch") => Invoked(p, "cache_miss")
          /\ Invoked(p, "cache_set")
               => /\ FetchCount(p) = 1
                  /\ config[p] = response[p].body
                  /\ cache.present /\ cache.value = response[p].body)
  /\ [][\A p \in Requests :
          /\ (pc[p] = "oidc_config" /\ pc'[p] # "oidc_config")
               => IF CacheValid
                  THEN pc'[p] = "decode_jwt" /\ config'[p] = cache.value
                  ELSE pc'[p] = "requests_get"
          /\ FetchCount(p)' > FetchCount(p) => ~CacheValid
          /\ (pc[p] = "cache_set" /\ pc'[p] # "cache_set")
               => cache' = [present |-> TRUE, value |-> response[p].body,
                            expires |-> now + OIDC_CONFIG_EXPIRATION_TIME]]_vars
  /\ [][cache' # cache => \E p \in Requests : pc[p] = "cache_set" /\ pc'[p] = "decode_jwt"]_vars

\* a second call hit the entry that an earlier fetch stored, after which the
\* entry expired
C5_Witness ==
  \E p \in Requests :
    /\ Invoked(p, "cache_hit")
    /\ cache.present /\ cache.expires <= now
    /\ config[p] = cache.value

\* C6: a discovery GET that ends in a network error, a non-2xx response or a
\* body that is not JSON makes get_oidc_config raise, with nothing cached from
\* the response, and the authenticate call ends in a failure.
FetchFailure(resp) ==
  resp.kind = "network_error" \/ resp.status = "non2xx" \/ ~resp.json

C6_FetchFailureFails ==
  \A p \in Requests :
    (response[p].kind # "not_requested" /\ FetchFailure(response[p]))
      => /\ Done(p)
         /\ result[p].kind = "raise"
         /\ trace[p][Len(trace[p])] = <<"fetch", "fail">>
         /\ ~(cache.present /\ cache.value = response[p].body)

ConfiguredAudiences ==
  IF settings.AUDIENCE.t = "str" THEN {settings.AUDIENCE.v}
  ELSE Elems(settings.AUDIENCE.v)

\* C7: aud is an essential claim whose accepted values are the configured
\* audiences: a token without aud, or whose aud shares no value with the
\* configured audiences, fails validation and never yields a pair.
C7_AudienceEssential ==
  /\ claims_options(settings).aud.essential
  /\ Elems(claims_options(settings).aud.values) = ConfiguredAudiences
  /\ \A p \in Requests :
       (Succeeded(p, "validate_claims") \/ (Done(p) /\ result[p].kind = "pair"))
         => /\ "aud" \in DOMAIN payload[p]
            /\ ClaimList(payload[p].aud) \cap ConfiguredAudiences # {}
  /\ \A p \in Requests :
       (Invoked(p, "validate_claims")
          /\ ("aud" \notin DOMAIN payload[p]
                \/ ClaimList(payload[p].aud) \cap ConfiguredAudiences = {}))
         => /\ Done(p)
            /\ result[p].kind = "raise"
            /\ ~Invoked(p, "user_resolver")

C7_Witness ==
  \E p \in Requests :
    /\ Done(p)
    /\ Succeeded(p, "decode_jwt")
    /\ "aud" \notin DOMAIN payload[p]
    /\ "iss" \in DOMAIN payload[p] /\ payload[p].iss = Str(Issuer1)
    /\ Failed(p, "validate_claims")

\* C8: a header of one word that is the configured scheme, whatever its case,
\* makes the extractor fail with "No credentials provided".
C8_SchemeOnly ==
  \A p \in Requests :
    (Started(p) /\ MatchesScheme(header[p]) /\ Len(header[p]) = 1)
      => /\ Done(p)
         /\ result[p] = AuthenticationFailed(MsgNoCredentials)
         /\ jwt_value[p] = NoneVal

C8_Witness ==
  \E p \in Requests :
    /\ Started(p) /\ Len(header[p]) = 1 /\ MatchesScheme(header[p])
    /\ header[p][1] # ConfiguredScheme
    /\ result[p] = AuthenticationFailed(MsgNoCredentials)

\* C9: a header of the scheme followed by more than one further word makes
\* the extractor fail with "Credentials string should not contain spaces".
C9_CredentialWithSpaces ==
  \A p \in Requests :
    (Started(p) /\ MatchesScheme(header[p]) /\ Len(header[p]) > 2)
      => /\ Done(p)
         /\ result[p] = AuthenticationFailed(MsgSpaces)
         /\ jwt_value[p] = NoneVal

C9_Witness ==
  \E p \in Requests :
    /\ Started(p) /\ MatchesScheme(header[p]) /\ Len(header[p]) = 3
    /\ result[p] = AuthenticationFailed(MsgSpaces)

\* C10: a header of two words whose first is the configured scheme, whatever
\* its case, gives the second word unchanged as the credential, and the call
\* goes on to the decode; an unset or empty AUTH_SCHEME stands for "Bearer".
C10_CredentialExtracted ==
  \A p \in Requests :
    (Started(p) /\ MatchesScheme(header[p]) /\ Len(header[p]) = 2)
      => /\ jwt_value[p] = header[p][2]
         /\ trace[p][1] = <<"get_jwt_value", "ok">>
         /\ pc[p] = "oidc_config" \/ Len(trace[p]) > 1

C10_Witness ==
  \E p \in Requests :
    /\ settings.AUTH_SCHEME \in {NoneVal, ""}
    /\ header[p] = <<"bearer", "Tok.Good">>
    /\ jwt_value[p] = "Tok.Good"
    /\ Succeeded(p, "decode_jwt")

\* C11: the amr fix makes a string amr s the sequence [s], leaves a payload
\* whose amr is a sequence or absent as it was decoded, touches no other
\* claim, and changes nothing when applied to its own result.
C11_AmrNormalized ==
  \A p \in Requests :
    Succeeded(p, "decode_jwt")
      => LET raw == JwtPayload(jwt_value[p])
             claims == payload[p]
         IN /\ DOMAIN claims = DOMAIN raw
            /\ \A k \in DOMAIN raw \ {"amr"} : claims[k] = raw[k]
            /\ ("amr" \in DOMAIN raw /\ raw.amr.t = "str")
                 => claims.amr = [t |-> "list", v |-> <<raw.amr.v>>]
            /\ ("amr" \in DOMAIN raw /\ raw.amr.t = "list") => claims = raw
            /\ "amr" \notin DOMAIN raw => claims = raw
            /\ fix_amr(claims) = claims

C11_Witness ==
  \E p \in Requests :
    /\ Succeeded(p, "decode_jwt")
    /\ JwtPayload(jwt_value[p]).amr = Str("pwd")
    /\ payload[p].amr = List(<<"pwd">>)

\* C12: when the resolver raises ValueError for a validated token, authenticate
\* fails with an AuthenticationFailed that carries the resolver's message; no
\* authorization context is built, no scope check runs, no pair is returned.
C12_ResolverValueError ==
  \A p \in Requests :
    resolved[p].kind = "ValueError"
      => /\ Done(p)
         /\ Succeeded(p, "validate_claims")
         /\ result[p] = [kind |-> "raise", exc |-> "AuthenticationFailed",
                         msg |-> resolved[p].msg]
         /\ auth_ctx[p] = NoAuth
         /\ ~Invoked(p, "scope_check")
         /\ trace[p][Len(trace[p])] = <<"user_resolver", "fail">>

C12_Witness ==
  \E p \in Requests :
    /\ Done(p)
    /\ resolved[p].kind = "ValueError"
    /\ result[p].kind = "raise" /\ result[p].msg = <<"payload has no sub">>

AmrIsSequence(claims) == "amr" \in DOMAIN claims => claims.amr.t = "list"

\* C17: the payload handed to the resolver and to the authorization context
\* never has a string amr, and the amr fix is applied only to the payload of
\* a decode_jwt that succeeded.
C17_AmrFixedBeforeResolver ==
  \A p \in Requests :
    /\ (pc[p] = "user_resolver" \/ Invoked(p, "user_resolver"))
         => AmrIsSequence(payload[p])
    /\ auth_ctx[p] # NoAuth
         => AmrIsSequence(auth_ctx[p].payload) /\ auth_ctx[p].payload = payload[p]
    /\ (Done(p) /\ result[p].kind = "pair") => AmrIsSequence(result[p].auth.payload)
    /\ payload[p] # NoPayload => Succeeded(p, "decode_jwt")
    /\ Before(p, "decode_jwt", "user_resolver")
    /\ (Started(p) /\ ~Succeeded(p, "decode_jwt")) => payload[p] = NoPayload

C17_Witness ==
  \E p \in Requests :
    /\ JwtPayload(jwt_value[p]) # NoPayload
    /\ "amr" \in DOMAIN JwtPayload(jwt_value[p])
    /\ JwtPayload(jwt_value[p]).amr.t = "str"
    /\ resolved[p].kind = "user"
    /\ auth_ctx[p].payload.amr = List(<<"pwd">>)

ResolverCalls(p) ==
  Cardinality({i \in DOMAIN trace[p] : trace[p][i][1] = "user_resolver"})

\* C18: a call that fails with the scope-denied AuthenticationFailed has
\* called the resolver exactly once and got a user from it, so the resolver's
\* side effect has happened for the rejected token; the scope check is not
\* evaluated when the resolver failed.
C18_ScopeCheckAfterResolver ==
  \A p \in Requests :
    /\ Invoked(p, "scope_check")
         => /\ ResolverCalls(p) = 1
            /\ Before(p, "user_resolver", "scope_check")
            /\ resolved[p].kind = "user"
    /\ Failed(p, "scope_check")
         => /\ Done(p)
            /\ result[p] = AuthenticationFailed(MsgScope(settings.API_SCOPE_PREFIX))
            /\ resolved[p].kind = "user"
            /\ resolved[p].user \in users
            /\ auth_ctx[p].user = resolved[p].user
    /\ pc[p] = "scope_check" => resolved[p].kind = "user" /\ resolved[p].user \in users
    /\ Failed(p, "user_resolver")
         => ~Invoked(p, "scope_check") /\ pc[p] # "scope_check"

C18_Witness ==
  \E p \in Requests :
    /\ Done(p)
    /\ Failed(p, "scope_check")
    /\ ResolverCalls(p) = 1
    /\ "user1" \in users

ConfiguredIssuers ==
  IF settings.ISSUER.t = "str" THEN <<settings.ISSUER.v>> ELSE settings.ISSUER.v

\* the settings with ISSUER and AUDIENCE as single strings, and as the
\* one-element sequences of the same strings
AsStrings == [settings EXCEPT !.ISSUER = Str(Issuer1), !.AUDIENCE = Str("api")]
AsSequences ==
  [settings EXCEPT !.ISSUER = List(<<Issuer1>>), !.AUDIENCE = List(<<"api">>)]

\* C13: claims_options, get_oidc_config and get_audiences each work on the
\* list form of ISSUER and AUDIENCE, give a well-formed result for a string
\* and for a sequence, and treat a string s as the sequence [s].
C13_ShapesNormalized ==
  /\ Elems(claims_options(settings).aud.values) = ConfiguredAudiences
  /\ discovery_url(settings) = <<ConfiguredIssuers[1], WellKnownPath>>
  /\ get_audiences(settings) = Value(ConfiguredAudiences)
  /\ claims_options(AsStrings) = claims_options(AsSequences)
  /\ discovery_url(AsStrings) = discovery_url(AsSequences)
  /\ get_audiences(AsStrings) = get_audiences(AsSequences)

\* the complete JSON bodies a GET of p's discovery URL can return
WholeBodies(p) ==
  {r.body : r \in {x \in Responses(discovery_url(self_settings[p])) : x.json}}
InRefresh(p) == pc[p] = "requests_get" \/ pc[p] = "cache_set"
LookupStep(p) == pc[p] = "oidc_config" /\ pc'[p] # "oidc_config"
StoreStep(p) == pc[p] = "cache_set" /\ pc'[p] # "cache_set"

\* C14: under every interleaving of the requests, each caller gets the whole
\* body of a single fetch, the cache entry is absent or one whole body, a
\* lookup that finds an unexpired entry makes no network call, and the entry
\* changes only by the store of a refresh, so that later lookups within the
\* window all get the stored value.
C14_ConcurrentRefreshSafe ==
  /\ [](\A p \in Requests :
          /\ cache.present => cache.value \in WholeBodies(p)
          /\ ~cache.present => cache = NoEntry
          /\ config[p] # NoBody => config[p] \in WholeBodies(p)
          /\ Invoked(p, "cache_hit")
               => ~Invoked(p, "fetch") /\ response[p] = NoResponse
          /\ Succeeded(p, "fetch") => config[p] = response[p].body)
  /\ [][\A p \in Requests :
          /\ (LookupStep(p) /\ CacheValid)
               => /\ config'[p] = cache.value
                  /\ pc'[p] = "decode_jwt"
                  /\ response'[p] = NoResponse
          /\ StoreStep(p)
               => cache' = [present |-> TRUE, value |-> response[p].body,
                            expires |-> now + OIDC_CONFIG_EXPIRATION_TIME]]_vars
  /\ [][cache' # cache => \E p \in Requests : StoreStep(p)]_vars

\* two refreshes raced: both requests fetched, the cache holds the body of
\* the later store and a lookup after the race returned it
C14_Witness ==
  \E p, q \in Requests :
    /\ p # q
    /\ Succeeded(p, "fetch") /\ Invoked(p, "cache_set")
    /\ Invoked(q, "cache_hit")
    /\ cache.present /\ config[q] = cache.value
    /\ response[p].body # cache.value

\* C15: for one expiry of the entry exactly one fetch is made across all the
\* requests, also those that arrive after the expiry and before the refreshed
\* value is stored: no two requests are in a refresh at once, and no request
\* is about to fetch while an unexpired entry is stored.
C15_OneRefetchPerExpiry ==
  \A p \in Requests :
    /\ InRefresh(p) => \A q \in Requests \ {p} : ~InRefresh(q)
    /\ pc[p] = "requests_get" => ~CacheValid

\* C15 as amended: a caller whose lookup finds the entry absent or expired
\* makes exactly one fetch of its own and a caller whose lookup finds an
\* unexpired entry makes none, so the fetches of one expiry are one for each
\* caller that looked up before the refreshed value was stored.
C15_OneFetchPerMissedLookup ==
  /\ [](\A p \in Requests :
          /\ FetchCount(p) <= 1
          /\ Invoked(p, "cache_hit") => FetchCount(p) = 0
          /\ Before(p, "cache_miss", "fetch")
          /\ pc[p] = "requests_get"
               => trace[p][Len(trace[p])] = <<"cache_miss", "ok">>
          /\ (Invoked(p, "cache_miss") /\ pc[p] # "requests_get")
               => FetchCount(p) = 1)
  /\ [][\A p \in Requests :
          LookupStep(p)
            => IF CacheValid THEN pc'[p] = "decode_jwt" ELSE pc'[p] = "requests_get"]_vars

\* the stampede: two requests missed the same expired entry and both fetched
C15_Witness ==
  \E p, q \in Requests :
    /\ p # q
    /\ Invoked(p, "fetch") /\ ~Invoked(p, "cache_set") /\ pc[p] = "cache_set"
    /\ Invoked(q, "fetch") /\ ~Invoked(q, "cache_set") /\ pc[q] = "cache_set"
    /\ cache.present /\ cache.expires <= now

\* C16: an authenticator never gets a discovery document fetched for another
\* issuer than the one of its own settings, and the entry it stores expires
\* after the OIDC_CONFIG_EXPIRATION_TIME of its own settings.
C16_CacheKeyedBySettings ==
  /\ [](\A p \in Requests :
          config[p] # NoBody => config[p].issuer = discovery_url(self_settings[p])[1])
  /\ [][\A p \in Requests :
          StoreStep(p)
            => cache'.expires = now + self_settings[p].OIDC_CONFIG_EXPIRATION_TIME]_vars
====
